---- MODULE Spec2Model ----
(***************************************************************************)
(* Model of tfr_sensor/src/fiducial_odom_publisher.cpp: the FiducialOdom   *)
(* node.  An image callback (process_odometry) sends the image to the      *)
(* aruco action server, waits for the result, looks the camera->footprint  *)
(* transform up in its own tf buffer, reprojects the marker pose,          *)
(* broadcasts it as a transform, differences it against last_pose and      *)
(* publishes a nav_msgs/Odometry.                                          *)
(*                                                                         *)
(* Numbers: time is in whole seconds, positions are integer vectors and    *)
(* orientations are integer quaternions <<x, y, z, w>> (the identity, the  *)
(* half turns about the axes, and the all-zero quaternion of a             *)
(* default-constructed message), so that all of the geometry is exact.     *)
(* Angles are in half turns (1 = pi).  A quotient is a reduced fraction,   *)
(* or a non-finite IEEE value when the divisor is zero.                    *)
(***************************************************************************)
EXTENDS Integers, Sequences, FiniteSets, TLC

(***************************************************************************)
(* Bounds of the model.                                                    *)
(***************************************************************************)
MaxCycles == 3
MaxClock == 4

(***************************************************************************)
(* Program constants.                                                      *)
(***************************************************************************)
QueueSize == 10
FillSecs == 2
BackoffSecs == 1
CovPerMille == 5

camera_frame == "camera_link"
footprint_frame == "footprint"
bin_frame == "bin_link"
odometry_frame == "odom"

(***************************************************************************)
(* Vectors, quaternions and rotation matrices.                             *)
(***************************************************************************)
ZeroVec == <<0, 0, 0>>
ZeroQuat == <<0, 0, 0, 0>>
IdentityQuat == <<0, 0, 0, 1>>
TurnX == <<1, 0, 0, 0>>
TurnY == <<0, 1, 0, 0>>
TurnZ == <<0, 0, 1, 0>>

VecSub(a, b) == <<a[1] - b[1], a[2] - b[2], a[3] - b[3]>>
VecAdd(a, b) == <<a[1] + b[1], a[2] + b[2], a[3] + b[3]>>

MatVec(m, v) ==
    <<m[1][1] * v[1] + m[1][2] * v[2] + m[1][3] * v[3],
      m[2][1] * v[1] + m[2][2] * v[2] + m[2][3] * v[3],
      m[3][1] * v[1] + m[3][2] * v[2] + m[3][3] * v[3]>>

MatMul(a, b) ==
    [i \in 1..3 |-> [j \in 1..3 |->
        a[i][1] * b[1][j] + a[i][2] * b[2][j] + a[i][3] * b[3][j]]]

Transpose(m) == [i \in 1..3 |-> [j \in 1..3 |-> m[j][i]]]

\* KDL::Rotation::Quaternion, as used by tf2::doTransform: no normalisation,
\* so the all-zero quaternion yields the identity matrix.
KdlQuatToRot(q) ==
    LET x == q[1]  y == q[2]  z == q[3]  w == q[4]
    IN <<<<1 - 2 * (y * y + z * z), 2 * (x * y - w * z), 2 * (x * z + w * y)>>,
         <<2 * (x * y + w * z), 1 - 2 * (x * x + z * z), 2 * (y * z - w * x)>>,
         <<2 * (x * z - w * y), 2 * (y * z + w * x), 1 - 2 * (x * x + y * y)>>>>

\* tf2::Matrix3x3::setRotation: s = 2 / length2(q).  The quaternions of the
\* model that reach it have length2 = 1 (length2 = 0 is the division 2/0
\* and a matrix of NaN: Estimate treats it apart).
SetRotation(q) ==
    LET d == q[1] * q[1] + q[2] * q[2] + q[3] * q[3] + q[4] * q[4]
        s == 2 \div d
        x == q[1]  y == q[2]  z == q[3]  w == q[4]
        xs == x * s  ys == y * s  zs == z * s
    IN <<<<1 - (y * ys + z * zs), x * ys - w * zs, x * zs + w * ys>>,
         <<x * ys + w * zs, 1 - (x * xs + z * zs), y * zs - w * xs>>,
         <<x * zs - w * ys, y * zs + w * xs, 1 - (x * xs + y * ys)>>>>

ISqrt(n) == CHOOSE r \in 0..n : r * r <= n /\ (r + 1) * (r + 1) > n

\* KDL::Rotation::GetQuaternion and tf2::Matrix3x3::getRotation: the branch
\* on the trace, then on the largest diagonal entry.  On the rotation
\* matrices of the model (diagonal, entries 1 or -1) every square root and
\* quotient is exact.
RotToQuat(m) ==
    LET trace == m[1][1] + m[2][2] + m[3][3]
    IN IF trace > 0
       THEN LET r == ISqrt(trace + 1)
            IN <<(m[3][2] - m[2][3]) \div (2 * r), (m[1][3] - m[3][1]) \div (2 * r),
                 (m[2][1] - m[1][2]) \div (2 * r), r \div 2>>
       ELSE IF m[1][1] > m[2][2] /\ m[1][1] > m[3][3]
       THEN LET r == ISqrt(1 + m[1][1] - m[2][2] - m[3][3])
            IN <<r \div 2, (m[1][2] + m[2][1]) \div (2 * r),
                 (m[1][3] + m[3][1]) \div (2 * r), (m[3][2] - m[2][3]) \div (2 * r)>>
       ELSE IF m[2][2] > m[3][3]
       THEN LET r == ISqrt(1 + m[2][2] - m[1][1] - m[3][3])
            IN <<(m[1][2] + m[2][1]) \div (2 * r), r \div 2,
                 (m[2][3] + m[3][2]) \div (2 * r), (m[1][3] - m[3][1]) \div (2 * r)>>
       ELSE LET r == ISqrt(1 + m[3][3] - m[1][1] - m[2][2])
            IN <<(m[1][3] + m[3][1]) \div (2 * r), (m[2][3] + m[3][2]) \div (2 * r),
                 r \div 2, (m[2][1] - m[1][2]) \div (2 * r)>>

\* atan2 in half turns, on the axis directions the model produces.
Atan2(y, x) == IF y = 0 /\ x < 0 THEN 1 ELSE 0

\* tf2::Matrix3x3::getRPY (getEulerYPR, first solution) away from gimbal
\* lock: pitch = -asin(m[3][1]) = 0, roll = atan2(m[3][2], m[3][3]),
\* yaw = atan2(m[2][1], m[1][1]).
GetRPY(m) == <<Atan2(m[3][2], m[3][3]), 0, Atan2(m[2][1], m[1][1])>>

(***************************************************************************)
(* Floating-point quotient n / d: a reduced fraction num/den with den > 0, *)
(* or 1/0 (inf), -1/0 (-inf), 0/0 (nan) when the divisor is zero.          *)
(***************************************************************************)
Abs(n) == IF n < 0 THEN 0 - n ELSE n

RECURSIVE Gcd(_, _)
Gcd(a, b) == IF b = 0 THEN a ELSE Gcd(b, a % b)

Div(n, d) ==
    IF d = 0 THEN [num |-> IF n = 0 THEN 0 ELSE IF n > 0 THEN 1 ELSE 0 - 1, den |-> 0]
    ELSE LET g == Gcd(Abs(n), Abs(d))
             sgn == IF d < 0 THEN 0 - 1 ELSE 1
         IN [num |-> sgn * (n \div g), den |-> sgn * (d \div g)]

VecDiv(v, d) == <<Div(v[1], d), Div(v[2], d), Div(v[3], d)>>

NaN == [num |-> 0, den |-> 0]
Finite(q) == q.den # 0

(***************************************************************************)
(* Messages.                                                               *)
(***************************************************************************)
\* geometry_msgs::PoseStamped{}: every number zero, the orientation too.
InitPose == [stamp |-> 0, position |-> ZeroVec, orientation |-> ZeroQuat]

\* The same with the diagonal one place off.
CovarianceShifted == [i \in 1..36 |-> IF i % 7 = 0 THEN CovPerMille ELSE 0]

\* The 6x6 row-major covariance of lines 135-140 and 177-182, in 1e-3.
Covariance == [i \in 1..36 |-> IF (i - 1) % 7 = 0 THEN CovPerMille ELSE 0]

NoTransform == [none |-> "transform"]
NoMsg == [none |-> "message"]
NoCycle == [none |-> "cycle"]

\* Inputs: what the aruco action server may answer, and what the frame
\* graph may hold for camera_frame <- footprint_frame.
MarkerPoses ==
    {[position |-> <<0 - 1, 0, 0>>, orientation |-> ZeroQuat],
     [position |-> <<0 - 2, 0, 0>>, orientation |-> IdentityQuat],
     [position |-> <<2, 1, 0>>, orientation |-> TurnZ]}
EmptyResult ==
    [number_found |-> 0,
     relative_pose |-> [position |-> ZeroVec, orientation |-> ZeroQuat]]
Results == {EmptyResult} \cup [number_found : {1}, relative_pose : MarkerPoses]
Transforms ==
    {[translation |-> ZeroVec, rotation |-> IdentityQuat],
     [translation |-> <<1, 0, 1>>, rotation |-> TurnX]}

(***************************************************************************)
(* The geometry of one accepted cycle.                                     *)
(***************************************************************************)
\* tf2::doTransform(PoseStamped): KDL frame of the transform times KDL frame
\* of the pose, the rotation read back as a quaternion.
DoTransform(P, T) ==
    LET R == KdlQuatToRot(T.rotation)
    IN [position |-> VecAdd(MatVec(R, P.position), T.translation),
        orientation |-> RotToQuat(MatMul(R, KdlQuatToRot(P.orientation)))]

ReprojectNoFlip(P, T, now) ==
    LET tp == DoTransform(P, T)
    IN [stamp |-> now, position |-> tp.position, orientation |-> tp.orientation]

\* Lines 109-115: transform the pose, stamp it with now, negate x.
Reproject(P, T, now) ==
    LET tp == DoTransform(P, T)
    IN [stamp |-> now,
        position |-> <<0 - tp.position[1], tp.position[2], tp.position[3]>>,
        orientation |-> tp.orientation]

HandleUninitializedNot(lp) == lp

\* Lines 143-148 without the test: the orientation is reset in every cycle.
HandleUninitializedAlways(lp) == [lp EXCEPT !.orientation = <<0, 0, 0, 1>>]

\* Lines 143-148: an all-zero orientation of last_pose gets w = 1.
HandleUninitialized(lp) ==
    IF lp.orientation = ZeroQuat
    THEN [lp EXCEPT !.orientation = <<0, 0, 0, 1>>]
    ELSE lp

\* Lines 152-175 without the divisions of lines 174-175.
EstimateNoDivide(prev, cur) ==
    LET b0 == SetRotation(prev.orientation)
        b1 == SetRotation(cur.orientation)
        delta_t == cur.stamp - prev.stamp
    IN IF prev.orientation = ZeroQuat \/ cur.orientation = ZeroQuat
       THEN [linear |-> <<NaN, NaN, NaN>>, angular |-> <<NaN, NaN, NaN>>,
             delta_t |-> delta_t]
       ELSE LET linear_deltas == MatVec(Transpose(b0), VecSub(cur.position, prev.position))
                angular_deltas == RotToQuat(MatMul(Transpose(b0), b1))
                rpy_deltas == GetRPY(SetRotation(angular_deltas))
            IN [linear |-> VecDiv(linear_deltas, 1),
                angular |-> VecDiv(rpy_deltas, 1),
                delta_t |-> delta_t]

\* Lines 152-175 with t_1.inverseTimes(t_0) at line 161.
EstimateReversed(prev, cur) ==
    LET b0 == SetRotation(prev.orientation)
        b1 == SetRotation(cur.orientation)
        delta_t == cur.stamp - prev.stamp
    IN IF prev.orientation = ZeroQuat \/ cur.orientation = ZeroQuat
       THEN [linear |-> <<NaN, NaN, NaN>>, angular |-> <<NaN, NaN, NaN>>,
             delta_t |-> delta_t]
       ELSE LET linear_deltas == MatVec(Transpose(b1), VecSub(prev.position, cur.position))
                angular_deltas == RotToQuat(MatMul(Transpose(b1), b0))
                rpy_deltas == GetRPY(SetRotation(angular_deltas))
            IN [linear |-> VecDiv(linear_deltas, delta_t),
                angular |-> VecDiv(rpy_deltas, delta_t),
                delta_t |-> delta_t]

\* Lines 152-175 with the positions differenced in the bin frame.
EstimateWorldFrame(prev, cur) ==
    LET b0 == SetRotation(prev.orientation)
        b1 == SetRotation(cur.orientation)
        delta_t == cur.stamp - prev.stamp
    IN IF prev.orientation = ZeroQuat \/ cur.orientation = ZeroQuat
       THEN [linear |-> <<NaN, NaN, NaN>>, angular |-> <<NaN, NaN, NaN>>,
             delta_t |-> delta_t]
       ELSE LET linear_deltas == VecSub(cur.position, prev.position)
                angular_deltas == RotToQuat(MatMul(Transpose(b0), b1))
                rpy_deltas == GetRPY(SetRotation(angular_deltas))
            IN [linear |-> VecDiv(linear_deltas, delta_t),
                angular |-> VecDiv(rpy_deltas, delta_t),
                delta_t |-> delta_t]

\* Lines 152-175: deltas = t_0.inverseTimes(t_1), the rotation through a
\* quaternion to roll/pitch/yaw, both divided by delta_t.
Estimate(prev, cur) ==
    LET b0 == SetRotation(prev.orientation)
        b1 == SetRotation(cur.orientation)
        delta_t == cur.stamp - prev.stamp
    IN IF prev.orientation = ZeroQuat \/ cur.orientation = ZeroQuat
       THEN [linear |-> <<NaN, NaN, NaN>>, angular |-> <<NaN, NaN, NaN>>,
             delta_t |-> delta_t]
       ELSE LET linear_deltas == MatVec(Transpose(b0), VecSub(cur.position, prev.position))
                angular_deltas == RotToQuat(MatMul(Transpose(b0), b1))
                rpy_deltas == GetRPY(SetRotation(angular_deltas))
            IN [linear |-> VecDiv(linear_deltas, delta_t),
                angular |-> VecDiv(rpy_deltas, delta_t),
                delta_t |-> delta_t]

(***************************************************************************)
(* State.                                                                  *)
(***************************************************************************)
VARIABLES
    pc,           \* where the callback is: "idle", "waitForResult", "sleeping"
    active,       \* number of process_odometry invocations in progress
    queue,        \* images waiting in the subscriber queue
    cycles,       \* callbacks started so far
    clock,        \* ros::Time::now(), seconds
    frame_graph,  \* camera<-footprint transform the frame graph publishes
    tf_buffer,    \* the same transform as held by this node's tf_buffer
    last_pose,    \* FiducialOdom::last_pose
    odom,         \* last message published on "odom"
    published,    \* number of messages published on "odom"
    tf_sent,      \* last transform handed to the broadcaster
    broadcasts,   \* number of transforms broadcast
    warnings,     \* number of ROS_WARN lines
    lookups,      \* number of tf_buffer.lookupTransform calls
    wake_at,      \* end of the current ros::Duration::sleep
    entry,        \* last_pose and the counters as they were when the cycle began
    cyc,          \* inputs of the cycle last answered by the action server,
                  \* and the number of rejected cycles right before it (gap)
    accepted_cycles, \* cycles answered with success, a marker and a transform
    est           \* inputs and elapsed time of the last velocity estimate

vars == <<pc, active, queue, cycles, clock, frame_graph, tf_buffer, last_pose,
          odom, published, tf_sent, broadcasts, warnings, lookups, wake_at,
          entry, cyc, accepted_cycles, est>>

outputs == <<odom, published, tf_sent, broadcasts>>

\* The TransformListener is a local of the constructor (line 57): it is
\* destroyed when the constructor returns, and tf_buffer gets no more data.
ListenerAlive == FALSE

Snapshot ==
    [last_pose |-> last_pose, published |-> published, broadcasts |-> broadcasts,
     warnings |-> warnings, lookups |-> lookups]

\* After the constructor: last_pose{} (line 55), the buffer filled with
\* whatever the frame graph published while the listener lived (lines
\* 57-66), the clock past the 2 s sleep.
Init ==
    /\ pc = "idle"
    /\ active = 0
    /\ queue = 0
    /\ cycles = 0
    /\ clock = FillSecs
    /\ frame_graph \in Transforms \cup {NoTransform}
    /\ tf_buffer = frame_graph
    /\ last_pose = InitPose
    /\ odom = NoMsg
    /\ published = 0
    /\ tf_sent = NoMsg
    /\ broadcasts = 0
    /\ warnings = 0
    /\ lookups = 0
    /\ wake_at = 0
    /\ entry = Snapshot
    /\ cyc = NoCycle
    /\ accepted_cycles = 0
    /\ est = NoMsg

(***************************************************************************)
(* The environment: images, the clock, the frame graph.                    *)
(***************************************************************************)
\* An image reaches the camera subscriber (queue of 10, line 59).
ImageArrives ==
    /\ cycles + queue < MaxCycles
    /\ queue' = IF queue < QueueSize THEN queue + 1 ELSE queue
    /\ UNCHANGED <<pc, active, cycles, clock, frame_graph, tf_buffer, last_pose,
                   outputs, warnings, lookups, wake_at, entry, cyc, accepted_cycles, est>>

\* ros::Time::now() moves on by a second.
Tick ==
    /\ clock < MaxClock
    /\ clock' = clock + 1
    /\ UNCHANGED <<pc, active, queue, cycles, frame_graph, tf_buffer, last_pose,
                   outputs, warnings, lookups, wake_at, entry, cyc, accepted_cycles, est>>

\* The frame graph starts to publish camera<-footprint; only a live
\* listener would copy it into tf_buffer.
FramePublished ==
    \E T \in Transforms :
        /\ frame_graph = NoTransform
        /\ frame_graph' = T
        /\ tf_buffer' = IF ListenerAlive THEN T ELSE tf_buffer
        /\ UNCHANGED <<pc, active, queue, cycles, clock, last_pose, outputs,
                       warnings, lookups, wake_at, entry, cyc, accepted_cycles, est>>

(***************************************************************************)
(* process_odometry.                                                       *)
(***************************************************************************)
SpinReadyAsync == TRUE

\* ros::spin() (line 221) runs the callbacks of the node one at a time, on
\* the thread of main.
SpinReady == active = 0

\* ros::spin() takes the next image and calls process_odometry, which sends
\* the goal and blocks in waitForResult (lines 78-82).
Dispatch ==
    /\ SpinReady
    /\ queue > 0
    /\ queue' = queue - 1
    /\ cycles' = cycles + 1
    /\ active' = active + 1
    /\ pc' = "waitForResult"
    /\ entry' = Snapshot
    /\ UNCHANGED <<clock, frame_graph, tf_buffer, last_pose, outputs, warnings,
                   lookups, wake_at, cyc, accepted_cycles, est>>

\* process_odometry returns to ros::spin().
Return ==
    /\ pc' = "idle"
    /\ active' = active - 1

DetectionFailedSilent ==
    /\ Return
    /\ UNCHANGED <<clock, last_pose, outputs, warnings, lookups, wake_at, est>>

\* waitForResult() returned false (lines 188-191).
DetectionFailed ==
    /\ warnings' = warnings + 1
    /\ Return
    /\ UNCHANGED <<clock, last_pose, outputs, lookups, wake_at, est>>

NoMarkerNever(result) == FALSE

\* Line 93.
NoMarker(result) == result.number_found = 0

\* Lines 93-94: return without a word.
RejectNoMarker ==
    /\ Return
    /\ UNCHANGED <<clock, last_pose, outputs, warnings, lookups, wake_at, est>>

\* tf_buffer.lookupTransform(camera_frame, footprint_frame, ros::Time(0))
\* (lines 99-101) throws unless the buffer holds the transform.
CanTransform == tf_buffer # NoTransform

CatchTransformExceptionNoSleep ==
    /\ clock + BackoffSecs <= MaxClock
    /\ lookups' = lookups + 1
    /\ warnings' = warnings + 1
    /\ wake_at' = clock
    /\ pc' = "sleeping"
    /\ UNCHANGED <<active, clock, last_pose, outputs, est>>

\* Lines 103-107 without the ROS_WARN.
CatchTransformExceptionQuiet ==
    /\ clock + BackoffSecs <= MaxClock
    /\ lookups' = lookups + 1
    /\ wake_at' = clock + BackoffSecs
    /\ pc' = "sleeping"
    /\ UNCHANGED <<active, clock, last_pose, outputs, warnings, est>>

\* Lines 103-107: warn, then sleep for a second (a sleep that would end
\* after MaxClock is not begun).
CatchTransformException ==
    /\ clock + BackoffSecs <= MaxClock
    /\ lookups' = lookups + 1
    /\ warnings' = warnings + 1
    /\ wake_at' = clock + BackoffSecs
    /\ pc' = "sleeping"
    /\ UNCHANGED <<active, clock, last_pose, outputs, est>>

\* Lines 117-126 with the two frame names exchanged.
BroadcastMsgSwapped(relative_pose, now) ==
    [stamp |-> now, frame_id |-> footprint_frame, child_frame_id |-> bin_frame,
     translation |-> relative_pose.position, rotation |-> relative_pose.orientation]

\* Lines 117-126: the reprojected pose as the transform bin -> footprint.
BroadcastMsg(relative_pose, now) ==
    [stamp |-> now, frame_id |-> bin_frame, child_frame_id |-> footprint_frame,
     translation |-> relative_pose.position, rotation |-> relative_pose.orientation]

\* Lines 128-140 and 174-182: the odometry message.
OdomMsg(relative_pose, twist, now) ==
    [stamp |-> now, frame_id |-> bin_frame, child_frame_id |-> footprint_frame,
     pose |-> [position |-> relative_pose.position,
               orientation |-> relative_pose.orientation],
     pose_covariance |-> Covariance,
     twist |-> [linear |-> twist.linear, angular |-> twist.angular],
     twist_covariance |-> Covariance]

\* Lines 109-186 with line 186 left out.
AcceptKeepHistory(result, d1, d2) ==
    LET relative_pose == Reproject(result.relative_pose, tf_buffer, clock)
        prev == HandleUninitialized(last_pose)
        e == Estimate(prev, relative_pose)
    IN /\ clock + d1 + d2 <= MaxClock
       /\ lookups' = lookups + 1
       /\ tf_sent' = BroadcastMsg(relative_pose, clock + d1)
       /\ broadcasts' = broadcasts + 1
       /\ odom' = OdomMsg(relative_pose, e, clock + d1 + d2)
       /\ published' = published + 1
       /\ est' = [prev |-> prev, cur |-> relative_pose, delta_t |-> e.delta_t]
       /\ clock' = clock + d1 + d2
       /\ Return
       /\ UNCHANGED <<last_pose, warnings, wake_at>>

\* Lines 109-186 with a test of delta_t before the division: a cycle with
\* no elapsed time is dropped after the broadcast.
AcceptGuarded(result, d1, d2) ==
    LET relative_pose == Reproject(result.relative_pose, tf_buffer, clock)
        prev == HandleUninitialized(last_pose)
        e == Estimate(prev, relative_pose)
    IN /\ clock + d1 + d2 <= MaxClock
       /\ lookups' = lookups + 1
       /\ tf_sent' = BroadcastMsg(relative_pose, clock + d1)
       /\ broadcasts' = broadcasts + 1
       /\ est' = [prev |-> prev, cur |-> relative_pose, delta_t |-> e.delta_t]
       /\ clock' = clock + d1 + d2
       /\ Return
       /\ UNCHANGED <<warnings, wake_at>>
       /\ IF e.delta_t <= 0
          THEN UNCHANGED <<odom, published, last_pose>>
          ELSE /\ odom' = OdomMsg(relative_pose, e, clock + d1 + d2)
               /\ published' = published + 1
               /\ last_pose' = relative_pose

\* Lines 109-186: the accepted cycle.  ros::Time::now() is read three times
\* (lines 114, 119, 131); the clock may move by d1 and d2 in between.
Accept(result, d1, d2) ==
    LET relative_pose == Reproject(result.relative_pose, tf_buffer, clock)
        prev == HandleUninitialized(last_pose)
        e == Estimate(prev, relative_pose)
    IN /\ clock + d1 + d2 <= MaxClock
       /\ lookups' = lookups + 1
       /\ tf_sent' = BroadcastMsg(relative_pose, clock + d1)
       /\ broadcasts' = broadcasts + 1
       /\ odom' = OdomMsg(relative_pose, e, clock + d1 + d2)
       /\ published' = published + 1
       /\ last_pose' = relative_pose
       /\ est' = [prev |-> prev, cur |-> relative_pose, delta_t |-> e.delta_t]
       /\ clock' = clock + d1 + d2
       /\ Return
       /\ UNCHANGED <<warnings, wake_at>>

\* waitForResult() returns (line 82) and the callback runs on to its return
\* or to the sleep of line 105.
WaitForResultReturns ==
    /\ pc = "waitForResult"
    /\ \E ok \in BOOLEAN : \E result \in (IF ok THEN Results ELSE {EmptyResult}) :
        /\ cyc' = [ok |-> ok, number_found |-> result.number_found,
                   relative_pose |-> result.relative_pose,
                   buffer_has |-> tf_buffer # NoTransform,
                   graph_has |-> frame_graph # NoTransform,
                   transform |-> tf_buffer, at |-> clock,
                   gap |-> IF cyc = NoCycle THEN 0
                           ELSE IF cyc.ok /\ cyc.number_found # 0 /\ cyc.buffer_has
                           THEN 0 ELSE cyc.gap + 1]
        /\ accepted_cycles' =
              IF ok /\ result.number_found # 0 /\ tf_buffer # NoTransform
              THEN accepted_cycles + 1 ELSE accepted_cycles
        /\ UNCHANGED <<queue, cycles, frame_graph, tf_buffer, entry>>
        /\ IF ~ok THEN DetectionFailed
           ELSE IF NoMarker(result) THEN RejectNoMarker
           ELSE IF ~CanTransform THEN CatchTransformException
           ELSE \E d1, d2 \in 0..1 : Accept(result, d1, d2)

\* ros::Duration(1.0).sleep() is over (line 105); line 106 returns.
SleepReturns ==
    /\ pc = "sleeping"
    /\ clock >= wake_at
    /\ Return
    /\ UNCHANGED <<queue, cycles, clock, frame_graph, tf_buffer, last_pose,
                   outputs, warnings, lookups, wake_at, entry, cyc, accepted_cycles, est>>

Next ==
    \/ ImageArrives
    \/ Tick
    \/ FramePublished
    \/ Dispatch
    \/ WaitForResultReturns
    \/ SleepReturns

Spec == Init /\ [][Next]_vars

\* The action server answers, the clock runs and the sleep ends.
LiveSpec ==
    /\ Spec
    /\ WF_vars(WaitForResultReturns)
    /\ WF_vars(Tick)
    /\ WF_vars(SleepReturns)

TypeOK ==
    /\ pc \in {"idle", "waitForResult", "sleeping"}
    /\ active \in 0..1
    /\ queue \in 0..MaxCycles
    /\ cycles \in 0..MaxCycles
    /\ clock \in FillSecs..MaxClock
    /\ published \in 0..cycles
    /\ broadcasts \in 0..cycles
    /\ warnings \in 0..cycles
    /\ lookups \in 0..cycles

(***************************************************************************)
(* Properties.                                                             *)
(***************************************************************************)
\* The callback has returned from the cycle that cyc and entry describe.
Finished == pc = "idle" /\ cycles > 0 /\ cyc # NoCycle

\* The action server succeeded, found a marker, and the lookup succeeded.
AcceptedInputs == cyc.ok /\ cyc.number_found # 0 /\ cyc.buffer_has

NothingEmitted == published = entry.published /\ broadcasts = entry.broadcasts

\* C1: a cycle whose result reports number_found = 0 publishes no odometry,
\* broadcasts no transform, makes no lookupTransform call and leaves
\* last_pose as it was, whatever came before.
C1_ZeroCountSilent ==
    (Finished /\ cyc.ok /\ cyc.number_found = 0) =>
        /\ NothingEmitted
        /\ lookups = entry.lookups
        /\ last_pose = entry.last_pose

C1_Witness ==
    /\ Finished /\ cyc.ok /\ cyc.number_found = 0
    /\ published > 0 /\ last_pose # InitPose

\* C2: a cycle with a marker whose lookupTransform throws logs one warning,
\* returns no sooner than 1 second after the failure, publishes and
\* broadcasts nothing and leaves last_pose as it was.
C2_LookupFailureBacksOff ==
    (Finished /\ cyc.ok /\ cyc.number_found # 0 /\ ~cyc.buffer_has) =>
        /\ warnings = entry.warnings + 1
        /\ lookups = entry.lookups + 1
        /\ clock >= cyc.at + 1
        /\ NothingEmitted
        /\ last_pose = entry.last_pose

C2_Witness ==
    /\ Finished /\ cyc.ok /\ cyc.number_found # 0 /\ ~cyc.buffer_has
    /\ cycles >= 2 /\ warnings >= 2 /\ clock = cyc.at + 1

\* C3: a cycle whose waitForResult fails logs a warning, publishes and
\* broadcasts nothing, makes no lookupTransform call and leaves last_pose
\* as it was.
C3_DetectionFailureSkips ==
    (Finished /\ ~cyc.ok) =>
        /\ warnings = entry.warnings + 1
        /\ NothingEmitted
        /\ lookups = entry.lookups
        /\ last_pose = entry.last_pose

C3_Witness ==
    /\ Finished /\ ~cyc.ok
    /\ published > 0 /\ last_pose # InitPose

\* C4: a cycle that reaches the velocity estimate with delta_t <= 0 is
\* skipped: nothing is published and last_pose is not advanced.
C4_DegenerateIntervalSkipped ==
    (Finished /\ AcceptedInputs /\ est.delta_t <= 0) =>
        /\ published = entry.published
        /\ last_pose = entry.last_pose

\* C5, as claimed: the first cycle with a marker and a transform, run while
\* last_pose is still the constructor's value, publishes nothing.
C5_FirstCycleSkipped ==
    (Finished /\ AcceptedInputs /\ entry.published = 0 /\ entry.last_pose = InitPose) =>
        published = 0

\* C5, amended: that first cycle does publish one odometry message; its
\* velocity is differenced against zero position, identity orientation and
\* timestamp 0, so delta_t is the cycle's own timestamp.
C5_FirstCycleEmits ==
    (Finished /\ AcceptedInputs /\ entry.published = 0 /\ entry.last_pose = InitPose) =>
        /\ published = 1
        /\ est.prev = [stamp |-> 0, position |-> ZeroVec, orientation |-> IdentityQuat]
        /\ est.cur = last_pose
        /\ est.delta_t = last_pose.stamp

C5_Witness ==
    /\ Finished /\ AcceptedInputs /\ entry.published = 0 /\ entry.last_pose = InitPose
    /\ published = 1 /\ est.delta_t > 0

\* C6: a cycle publishes one odometry message if the action server
\* succeeded, found a marker and the lookup succeeded, and none otherwise;
\* the number of messages published is the number of such cycles.
C6_OneEmissionPerAcceptedCycle ==
    /\ published = accepted_cycles
    /\ Finished => published = entry.published + (IF AcceptedInputs THEN 1 ELSE 0)

C6_Witness ==
    /\ Finished /\ cycles = 3 /\ published = 2 /\ accepted_cycles = 2
    /\ est.delta_t = 0

\* C7: at every cycle boundary last_pose is the constructor's value if
\* nothing was published, and otherwise has the position and orientation of
\* the last odometry message; it changes only in a step that publishes.
C7_HistoryFollowsEmission ==
    /\ [](pc = "idle" =>
            IF published = 0 THEN last_pose = InitPose
            ELSE /\ last_pose.position = odom.pose.position
                 /\ last_pose.orientation = odom.pose.orientation)
    /\ [][last_pose' # last_pose => published' = published + 1]_vars

C7_Witness ==
    /\ Finished /\ ~AcceptedInputs /\ published = 2
    /\ last_pose.position = odom.pose.position

\* C8: at most one process_odometry invocation is in progress, and one is
\* in progress exactly while the callback is waiting or sleeping.
C8_NoOverlap ==
    /\ active <= 1
    /\ active = 1 <=> pc # "idle"

C8_Witness == pc = "sleeping" /\ queue > 0 /\ active = 1 /\ clock < wake_at

\* C9: once the frame graph publishes the camera<-footprint transform, a
\* cycle with a marker is accepted and publishes an odometry message.
C9_TransformFailureRecovers ==
    (Finished /\ cyc.ok /\ cyc.number_found # 0 /\ cyc.graph_has) =>
        published = entry.published + 1

\* C10: the reprojected pose of an accepted cycle has the negated x of the
\* transformed position, and its y, z and orientation unchanged.
C10_ReprojectNegatesX ==
    (Finished /\ AcceptedInputs) =>
        LET tp == DoTransform(cyc.relative_pose, cyc.transform)
        IN /\ last_pose.position = <<0 - tp.position[1], tp.position[2], tp.position[3]>>
           /\ last_pose.orientation = tp.orientation
           /\ odom.pose.position = last_pose.position
           /\ odom.pose.orientation = last_pose.orientation
           /\ tf_sent.translation = last_pose.position

C10_Witness ==
    /\ Finished /\ AcceptedInputs
    /\ cyc.transform.rotation = TurnX
    /\ last_pose.position = <<0 - 3, 0 - 1, 1>>
    /\ last_pose.orientation # IdentityQuat

(***************************************************************************)
(* Quaternion algebra, to state the geometry without the matrices.         *)
(***************************************************************************)
QuatMul(a, b) ==
    <<a[4] * b[1] + a[1] * b[4] + a[2] * b[3] - a[3] * b[2],
      a[4] * b[2] - a[1] * b[3] + a[2] * b[4] + a[3] * b[1],
      a[4] * b[3] + a[1] * b[2] - a[2] * b[1] + a[3] * b[4],
      a[4] * b[4] - a[1] * b[1] - a[2] * b[2] - a[3] * b[3]>>

Conj(q) == <<0 - q[1], 0 - q[2], 0 - q[3], q[4]>>

\* v turned by the unit quaternion q: the vector part of q v q*.
QuatRotate(q, v) ==
    LET r == QuatMul(QuatMul(q, <<v[1], v[2], v[3], 0>>), Conj(q))
    IN <<r[1], r[2], r[3]>>

\* The translation of inverse(previous) * current.
RelativeTranslation(prev, cur) ==
    QuatRotate(Conj(prev.orientation), VecSub(cur.position, prev.position))

Rational(n, d) == [num |-> n, den |-> d]

\* C11: the linear velocity published is the translation of
\* inverse(previous) * current divided by the elapsed time; from zero
\* position and identity at t = 0 to (2,0,0) and identity at t = 2 it is
\* (1,0,0), with angular velocity (0,0,0).
C11_LinearVelocity ==
    (Finished /\ AcceptedInputs) =>
        /\ odom.twist.linear =
             VecDiv(RelativeTranslation(est.prev, est.cur), est.cur.stamp - est.prev.stamp)
        /\ (/\ est.prev = [stamp |-> 0, position |-> ZeroVec, orientation |-> IdentityQuat]
            /\ est.cur = [stamp |-> 2, position |-> <<2, 0, 0>>, orientation |-> IdentityQuat])
           => /\ odom.twist.linear = <<Rational(1, 1), Rational(0, 1), Rational(0, 1)>>
              /\ odom.twist.angular = <<Rational(0, 1), Rational(0, 1), Rational(0, 1)>>

C11_Witness ==
    /\ Finished /\ AcceptedInputs
    /\ est.prev = [stamp |-> 0, position |-> ZeroVec, orientation |-> IdentityQuat]
    /\ est.cur = [stamp |-> 2, position |-> <<2, 0, 0>>, orientation |-> IdentityQuat]
    /\ odom.twist.linear[1] = Rational(1, 1)

\* Two accepted cycles in a row, 2 seconds apart, the second pose 1 along x
\* from the first.
TwoCyclesOneUnitApart ==
    /\ Finished /\ AcceptedInputs
    /\ entry.published >= 1 /\ cyc.gap = 0
    /\ est.delta_t = 2
    /\ VecSub(est.cur.position, est.prev.position) = <<1, 0, 0>>

C13_PreviousOrientationValid ==
    /\ est # NoMsg => est.prev.orientation # ZeroQuat
    /\ (Finished /\ AcceptedInputs /\ entry.last_pose = InitPose) =>
           /\ est.prev.orientation = IdentityQuat
           /\ est.prev.position = ZeroVec

C13_Witness ==
    /\ Finished /\ AcceptedInputs
    /\ entry.last_pose.orientation = ZeroQuat
    /\ est.prev.orientation = IdentityQuat /\ est.prev.position = ZeroVec

\* C14, as claimed: no step writes a field of last_pose in place, so what
\* line 153 reads from last_pose (est.prev) is the sample that was stored
\* when the cycle began.
C14_NeverMutatedInPlace ==
    (Finished /\ AcceptedInputs) => est.prev = entry.last_pose

\* C14, amended: last_pose is replaced as a whole by the reprojected pose of
\* each accepted cycle and changes in no other step; inside an accepted
\* cycle the only write to one of its fields sets the w of an all-zero
\* orientation to 1 (line 148), before the same cycle replaces the sample.
C14_ReplacedWholesale ==
    /\ [](Finished /\ AcceptedInputs =>
            /\ est.prev = IF entry.last_pose.orientation = ZeroQuat
                          THEN [entry.last_pose EXCEPT !.orientation = <<0, 0, 0, 1>>]
                          ELSE entry.last_pose
            /\ last_pose = est.cur)
    /\ [](Finished /\ ~AcceptedInputs => last_pose = entry.last_pose)
    /\ [][last_pose' # last_pose => last_pose' = est'.cur /\ pc = "waitForResult"]_vars

C14_Witness ==
    /\ Finished /\ AcceptedInputs
    /\ entry.last_pose.orientation = TurnZ /\ est.prev = entry.last_pose
    /\ last_pose # entry.last_pose

\* C15: a cycle broadcasts a transform exactly when it publishes odometry;
\* the transform has the position and orientation of the odometry pose,
\* from the bin frame to the footprint frame, as the odometry message has.
C15_BroadcastMatchesOdometry ==
    /\ broadcasts = published
    /\ Finished => broadcasts - entry.broadcasts = published - entry.published
    /\ published > 0 =>
           /\ tf_sent.translation = odom.pose.position
           /\ tf_sent.rotation = odom.pose.orientation
           /\ tf_sent.frame_id = "bin_link" /\ odom.frame_id = tf_sent.frame_id
           /\ tf_sent.child_frame_id = "footprint"
           /\ odom.child_frame_id = tf_sent.child_frame_id

C15_Witness ==
    /\ Finished /\ AcceptedInputs /\ broadcasts = 2 /\ published = 2
    /\ tf_sent.translation = <<0 - 3, 0 - 1, 1>>
    /\ tf_sent.translation = odom.pose.position

Rotations == {IdentityQuat, TurnX, TurnY, TurnZ}

\* The pose A seen from a frame turned by R.
RotatePose(R, A) ==
    [stamp |-> A.stamp, position |-> QuatRotate(R, A.position),
     orientation |-> QuatMul(R, A.orientation)]

\* C16: the velocity estimated between two poses is the one estimated
\* between the same poses both turned by any fixed rotation R.
C16_RotationInvariant ==
    (Finished /\ AcceptedInputs) =>
        \A R \in Rotations :
            LET e == Estimate(RotatePose(R, est.prev), RotatePose(R, est.cur))
            IN /\ e.linear = odom.twist.linear
               /\ e.angular = odom.twist.angular

C16_Witness ==
    /\ Finished /\ AcceptedInputs
    /\ est.prev.orientation = TurnZ /\ est.cur.orientation = IdentityQuat
    /\ est.delta_t > 0
    /\ RelativeTranslation(est.prev, est.cur)[1] # 0
    /\ QuatRotate(TurnY, VecSub(est.cur.position, est.prev.position))
         # VecSub(est.cur.position, est.prev.position)

\* Entry (row, col) of a row-major 6x6 matrix, rows and columns from 0.
Entry6(m, row, col) == m[6 * row + col + 1]

FixedDiagonal(m) ==
    /\ DOMAIN m = 1..36
    /\ \A row \in 0..5 : \A col \in 0..5 :
           Entry6(m, row, col) = IF row = col THEN 5 ELSE 0
    /\ Cardinality({i \in 1..36 : m[i] # 0}) = 6

\* C17: both covariances of every odometry message published are 6x6 with
\* six non-zero entries, on the diagonal, each 5e-3 (5 in units of 1e-3).
C17_FixedCovariance ==
    published > 0 =>
        /\ FixedDiagonal(odom.pose_covariance)
        /\ FixedDiagonal(odom.twist_covariance)

C17_Witness ==
    /\ published = 2 /\ FixedDiagonal(odom.pose_covariance)
    /\ ~Finite(odom.twist.linear[1])

\* How the finished cycle ended, read from what it did.
Accepted ==
    /\ published = entry.published + 1 /\ lookups = entry.lookups + 1
    /\ warnings = entry.warnings
RejectedNoMarker ==
    /\ published = entry.published /\ lookups = entry.lookups
    /\ warnings = entry.warnings
RejectedTransformFailure ==
    /\ published = entry.published /\ lookups = entry.lookups + 1
    /\ warnings = entry.warnings + 1
DetectionServiceFailure ==
    /\ published = entry.published /\ lookups = entry.lookups
    /\ warnings = entry.warnings + 1

\* C18, as claimed: every finished cycle ended as Accepted, RejectedNoMarker
\* or RejectedTransformFailure.
C18_ThreeOutcomes ==
    Finished => Accepted \/ RejectedNoMarker \/ RejectedTransformFailure

\* C18, amended: every finished cycle ended in exactly one of four ways,
\* the three above or the failure of the detection call, and every cycle
\* whose detection call returns comes back to idle.
C18_FourOutcomes ==
    /\ [](Finished =>
            /\ Accepted \/ RejectedNoMarker \/ RejectedTransformFailure
                 \/ DetectionServiceFailure
            /\ Accepted <=> AcceptedInputs
            /\ RejectedNoMarker <=> (cyc.ok /\ cyc.number_found = 0)
            /\ RejectedTransformFailure <=>
                 (cyc.ok /\ cyc.number_found # 0 /\ ~cyc.buffer_has)
            /\ DetectionServiceFailure <=> ~cyc.ok)
    /\ (pc # "idle") ~> (pc = "idle")

C18_Witness == Finished /\ DetectionServiceFailure /\ cycles = 3 /\ published = 1

\* C19: the velocity of every odometry message after the first is
\* differenced against the pose and timestamp of the message before it,
\* however many rejected cycles lie between the two.
C19_DifferencedAgainstLastEmission ==
    [][(published' = published + 1 /\ published >= 1) =>
          /\ est'.prev = est.cur
          /\ est'.prev.position = odom.pose.position
          /\ est'.prev.orientation = odom.pose.orientation
          /\ est'.delta_t = est'.cur.stamp - est.cur.stamp]_vars

C19_Witness ==
    /\ Finished /\ AcceptedInputs /\ entry.published = 1 /\ cyc.gap = 1
    /\ est.delta_t = 2 /\ est.prev.position # est.cur.position

\* C20: the odometry message and the broadcast transform of an accepted
\* cycle carry the timestamp of the reprojected pose, the one used for
\* delta_t and stored in last_pose.
C20_SingleNow ==
    (Finished /\ AcceptedInputs) =>
        /\ last_pose.stamp = est.cur.stamp
        /\ est.delta_t = est.cur.stamp - est.prev.stamp
        /\ tf_sent.stamp = est.cur.stamp
        /\ odom.stamp = est.cur.stamp
====
